---- MODULE Spec2Model ----
(***************************************************************************)
(* Model of the account resolvers of server/src/schema/mutations/user.ts:  *)
(* CREATE_USER, LOGIN, DELETE_USER, UPDATE_USER_PASSWORD, UPDATE_USER,     *)
(* RESET_USER and CHECK_VERIFICATION_CODE, over the two tables Users and   *)
(* VerificationCode.                                                       *)
(*                                                                         *)
(* Resolvers are async functions.  Every `await` of a table operation is   *)
(* a point where another request may run, so a resolver is a sequence of   *)
(* steps, one per table operation; a step is the table operation together  *)
(* with the synchronous code that follows it up to the next table          *)
(* operation.  bcrypt.hash and bcrypt.compare touch no shared state and    *)
(* are folded into the step they follow.  A resolver with one table        *)
(* operation is a single step.                                             *)
(*                                                                         *)
(* Time is not measured: the task removeExpiredAuth schedules (delay 550)  *)
(* may run at any later step.  The mail sent by RESET_USER leaves the      *)
(* server and is not part of the state.                                    *)
(***************************************************************************)
EXTENDS Integers, FiniteSets, Sequences, TLC

VARIABLES users,    \* rows of the Users table
          nextId,   \* next value of the Users auto-increment primary key
          codes,    \* rows of the VerificationCode table
          timers,   \* pending removeExpiredAuth tasks
          req,      \* resolvers suspended at an await, one per connection
          resp      \* outcome of the resolver that finished last

vars == <<users, nextId, codes, timers, req, resp>>

(***************************************************************************)
(* Bounds and input domains.                                               *)
(***************************************************************************)
MaxUsers == 2

Conns == {"k1", "k2"}

NULL == "<undefined>"

Strings == {"a@x", "b@x", "al", "bo"}
ValidEmails == {"a@x", "b@x"}
ValidUserNames == {"al", "bo"}
FullNames == {"Al A", "Bo B"}
Birthdays == {"2000-01-01", "1999-12-31"}
CodeIds == {"c1", "c2"}

Upper == {"A", "Z"}
Lower == {"a", "b", "c", "d", "y"}
Digit == {"1", "9"}
Special == {"!", "#"}

PwStrong1 == <<"A", "b", "1", "!", "c", "d", "a", "a">>
PwStrong2 == <<"Z", "y", "9", "#", "c", "d", "a", "a">>
PwNoDigit == <<"A", "b", "c", "!", "c", "d", "a", "a">>
PwShort == <<"A", "b", "1", "!">>
NoPassword == <<>>

(***************************************************************************)
(* utils: validators.                                                      *)
(***************************************************************************)
HasChar(p, class) == \E i \in 1..Len(p) : p[i] \in class

checkValidPassword(p) ==
    /\ Len(p) >= 8
    /\ HasChar(p, Upper)
    /\ HasChar(p, Lower)
    /\ HasChar(p, Digit)
    /\ HasChar(p, Special)

checkValidEmail(e) == e \in ValidEmails
checkValidUserName(n) == n \in ValidUserNames
checkValidFullName(f) == f \in FullNames
checkValidBirthday(b) == b \in Birthdays

Truthy(x) == x \notin {NULL, ""}
TruthyPw(p) == p # NoPassword

(***************************************************************************)
(* bcrypt.                                                                 *)
(***************************************************************************)
bcryptHash(p) == [alg |-> "bcrypt", rounds |-> 10, digest |-> p]
bcryptCompare(p, h) == h.digest = p

(***************************************************************************)
(* jsonwebtoken.                                                           *)
(***************************************************************************)
jwtSign(payload) == [payload |-> payload, expiresIn |-> "1d", signed |-> TRUE]
jwtDecode(token) == token.payload

(***************************************************************************)
(* entities: the Users table.  id is the generated primary key; userName   *)
(* and email are unique columns, so a write that would leave two rows with *)
(* the same userName or the same email fails and changes nothing.          *)
(***************************************************************************)
\* variant: only the email column is unique
UsersUniqueEmailOnly(us) ==
    \A u, v \in us : u # v => u.id # v.id /\ u.email # v.email

UsersUnique(us) ==
    \A u, v \in us :
        u # v => /\ u.id # v.id
                 /\ u.email # v.email
                 /\ u.userName # v.userName

Merge(u, patch) ==
    [f \in DOMAIN u |-> IF f \in DOMAIN patch THEN patch[f] ELSE u[f]]

UsersByEmailOrUserName(us, e, n) == {u \in us : u.email = e \/ u.userName = n}
UsersByEmail(us, e) == {u \in us : u.email = e}
UsersById(us, id) == {u \in us : u.id = id}

UsersUpdateById(us, id, patch) ==
    {IF u.id = id THEN Merge(u, patch) ELSE u : u \in us}
UsersUpdateByEmail(us, e, patch) ==
    {IF u.email = e THEN Merge(u, patch) ELSE u : u \in us}
UsersDeleteById(us, id) == {u \in us : u.id # id}

(***************************************************************************)
(* entities: the VerificationCode table.  No column is unique, so the      *)
(* table is a bag of (email, code) rows: a function from the rows present  *)
(* to the number of copies.                                                *)
(***************************************************************************)
NoRows == [r \in {} |-> 0]

CodesInsert(rows, e, c) ==
    LET row == [email |-> e, code |-> c]
    IN  [r \in DOMAIN rows \cup {row} |->
            IF r = row
            THEN (IF row \in DOMAIN rows THEN rows[row] + 1 ELSE 1)
            ELSE rows[r]]

CodesByEmailAndCode(rows, e, c) == {r \in DOMAIN rows : r.email = e /\ r.code = c}
CodesByEmail(rows, e) == {r \in DOMAIN rows : r.email = e}
CodesDeleteByEmail(rows, e) ==
    [r \in {q \in DOMAIN rows : q.email # e} |-> rows[r]]
CodesDeleteByCode(rows, c) ==
    [r \in {q \in DOMAIN rows : q.code # c} |-> rows[r]]
CodesDeleteByEmailAndCode(rows, e, c) ==
    [r \in {q \in DOMAIN rows : ~(q.email = e /\ q.code = c)} |-> rows[r]]

RECURSIVE CodesCount(_, _)
CodesCount(rows, keys) ==
    IF keys = {} THEN 0
    ELSE LET r == CHOOSE q \in keys : TRUE
         IN  rows[r] + CodesCount(rows, keys \ {r})

(***************************************************************************)
(* Requests and responses.                                                 *)
(***************************************************************************)
Idle == [op |-> "idle"]

\* A response is the request it answers, the message of the error thrown (or
\* NULL) and the value returned; args and value are records.
Void == [void |-> TRUE]
Text(t) == [text |-> t]

Failed(op, a, msg) == [op |-> op, args |-> a, error |-> msg, value |-> Void]
Returned(op, a, v) == [op |-> op, args |-> a, error |-> NULL, value |-> v]

Suspend(k, r) == req' = [req EXCEPT ![k] = r]
Finish(k) == req' = [req EXCEPT ![k] = Idle]

Init ==
    /\ users = {}
    /\ nextId = 1
    /\ codes = NoRows
    /\ timers = {}
    /\ req = [k \in Conns |-> Idle]
    /\ resp = [op |-> "none", args |-> Void, error |-> NULL, value |-> Void]

(***************************************************************************)
(* CREATE_USER                                                             *)
(***************************************************************************)
WeakPassword ==
    "Password must be at least 8 characters and contains uppercase, lowercase, digits and special characters !"

CreateUserError(a) ==
    IF ~checkValidEmail(a.email) THEN "Unvalid email !"
    ELSE IF ~checkValidFullName(a.fullName)
         THEN "Unvalid FullName! \nPlease use the following format : firstname (middlename) lastname"
    ELSE IF ~checkValidUserName(a.userName) THEN "Unvalid userName !"
    ELSE IF ~checkValidPassword(a.password) THEN WeakPassword
    ELSE IF a.password # a.passwordConfirmation
         THEN "Password must match with passwordConfirmation !"
    ELSE IF ~checkValidBirthday(a.birthday) THEN "Unvalid birthday !"
    ELSE NULL

\* variant: findOne where email only
CreateUserRegisteredEmailOnly(us, a) == UsersByEmail(us, a.email) # {}

CreateUserRegistered(us, a) == UsersByEmailOrUserName(us, a.email, a.userName) # {}

CreateUserRow(a, id) ==
    [id |-> id,
     fullName |-> a.fullName,
     userName |-> a.userName,
     email |-> a.email,
     password |-> bcryptHash(a.password),
     birthday |-> a.birthday,
     isAdmin |-> (a.isAdmin = "true")]

\* lines 29-59: validation, then Users.findOne by email or userName
CreateUser(k, a) ==
    /\ req[k] = Idle
    /\ UNCHANGED <<users, nextId, codes, timers>>
    /\ IF CreateUserError(a) # NULL
       THEN /\ resp' = Failed("createUser", a, CreateUserError(a))
            /\ UNCHANGED req
       ELSE IF CreateUserRegistered(users, a)
       THEN /\ resp' = Failed("createUser", a, "User already registered !")
            /\ UNCHANGED req
       ELSE /\ Suspend(k, [op |-> "createUser", pc |-> "insert", args |-> a])
            /\ UNCHANGED resp

\* lines 61-72: bcrypt.hash, Users.insert, return args
CreateUserInsert(k) ==
    /\ req[k].op = "createUser"
    /\ req[k].pc = "insert"
    /\ nextId <= MaxUsers
    /\ LET a == req[k].args
           inserted == users \cup {CreateUserRow(a, nextId)}
       IN  IF UsersUnique(inserted)
           THEN /\ users' = inserted
                /\ nextId' = nextId + 1
                /\ resp' = Returned("createUser", a, a)
           ELSE /\ UNCHANGED <<users, nextId>>
                /\ resp' = Failed("createUser", a, "QueryFailedError")
    /\ Finish(k)
    /\ UNCHANGED <<codes, timers>>

(***************************************************************************)
(* LOGIN                                                                   *)
(***************************************************************************)
\* lines 84-86: Users.findOne where email = identifier or userName = identifier
LoginLookup(us, a) == UsersByEmailOrUserName(us, a.email, a.email)

\* lines 95-105
LoginToken(u) ==
    jwtSign([id |-> u.id,
             fullName |-> u.fullName,
             email |-> u.email,
             username |-> u.userName,
             isAdmin |-> u.isAdmin])

\* lines 82-106; findOne returns any one of the rows that match
Login(a) ==
    /\ UNCHANGED <<users, nextId, codes, timers, req>>
    /\ IF LoginLookup(users, a) = {}
       THEN resp' = Failed("login", a, "User doesn't exist !")
       ELSE \E u \in LoginLookup(users, a) :
                IF ~bcryptCompare(a.password, u.password)
                THEN resp' = Failed("login", a, "Wrong password !")
                ELSE resp' = Returned("login", a, LoginToken(u))

(***************************************************************************)
(* DELETE_USER                                                             *)
(***************************************************************************)
\* lines 114-117
DeleteUser(a) ==
    /\ users' = UsersDeleteById(users, a.id)
    /\ resp' = Returned("deleteUser", a, Void)
    /\ UNCHANGED <<nextId, codes, timers, req>>

(***************************************************************************)
(* UPDATE_USER_PASSWORD                                                    *)
(***************************************************************************)
\* lines 129-132: Users.findOne by email
UpdateUserPassword(k, a) ==
    /\ req[k] = Idle
    /\ UNCHANGED <<users, nextId, codes, timers>>
    /\ IF UsersByEmail(users, a.email) = {}
       THEN /\ resp' = Failed("updateUserPassword", a, "USER DOESN'T EXIST !")
            /\ UNCHANGED req
       ELSE /\ \E u \in UsersByEmail(users, a.email) :
                   Suspend(k, [op |-> "updateUserPassword", pc |-> "findCode",
                               args |-> a, user |-> u])
            /\ UNCHANGED resp

\* variant: without the call of checkValidPassword
UpdateUserPasswordErrorNoStrength(rows, a, user) ==
    IF CodesByEmailAndCode(rows, a.email, a.code) = {}
    THEN "Authorization session expired !"
    ELSE IF a.oldPassword # a.newPassword
    THEN "Password confirmation doesn't match with password !"
    ELSE IF bcryptCompare(a.oldPassword, user.password)
    THEN "Please choose another password"
    ELSE NULL

\* lines 134-148: the checks between VerificationCode.findOne and Users.update
UpdateUserPasswordError(rows, a, user) ==
    IF CodesByEmailAndCode(rows, a.email, a.code) = {}
    THEN "Authorization session expired !"
    ELSE IF a.oldPassword # a.newPassword
    THEN "Password confirmation doesn't match with password !"
    ELSE IF bcryptCompare(a.oldPassword, user.password)
    THEN "Please choose another password"
    ELSE IF ~checkValidPassword(a.newPassword)
    THEN WeakPassword
    ELSE NULL

\* lines 134-148: VerificationCode.findOne by email and code, then the checks
UpdateUserPasswordCheck(k) ==
    /\ req[k].op = "updateUserPassword"
    /\ req[k].pc = "findCode"
    /\ UNCHANGED <<users, nextId, codes, timers>>
    /\ LET a == req[k].args
           msg == UpdateUserPasswordError(codes, a, req[k].user)
       IN  IF msg # NULL
           THEN /\ resp' = Failed("updateUserPassword", a, msg)
                /\ Finish(k)
           ELSE /\ Suspend(k, [req[k] EXCEPT !.pc = "update"])
                /\ UNCHANGED resp

\* line 149: Users.update({ email }, { password: hashedNewPassword })
UpdateUserPasswordStore(us, a) ==
    UsersUpdateByEmail(us, a.email, [password |-> bcryptHash(a.newPassword)])

UpdateUserPasswordUpdate(k) ==
    /\ req[k].op = "updateUserPassword"
    /\ req[k].pc = "update"
    /\ users' = UpdateUserPasswordStore(users, req[k].args)
    /\ Suspend(k, [req[k] EXCEPT !.pc = "deleteCode"])
    /\ UNCHANGED <<nextId, codes, timers, resp>>

\* variant: without the delete of line 150
UpdateUserPasswordConsumeNothing(rows, a) == rows

\* line 150: VerificationCode.delete({ code })
UpdateUserPasswordConsume(rows, a) == CodesDeleteByCode(rows, a.code)

UpdateUserPasswordDelete(k) ==
    /\ req[k].op = "updateUserPassword"
    /\ req[k].pc = "deleteCode"
    /\ codes' = UpdateUserPasswordConsume(codes, req[k].args)
    /\ resp' = Returned("updateUserPassword", req[k].args, Void)
    /\ Finish(k)
    /\ UNCHANGED <<users, nextId, timers>>

(***************************************************************************)
(* UPDATE_USER                                                             *)
(***************************************************************************)
\* variant: every field is copied, supplied or not
UpdatedUsrEveryField(a) ==
    [f \in {"userName", "fullName", "email", "birthday"} |-> a[f]]

\* lines 179-190: the fields of the request that are truthy
UpdatedUsr(a) ==
    [f \in {g \in {"userName", "fullName", "email", "birthday"} : Truthy(a[g])} |-> a[f]]

WithPassword(patch, h) ==
    [f \in DOMAIN patch \cup {"password"} |->
        IF f = "password" THEN h ELSE patch[f]]

\* lines 196-204
UpdateUserPasswordPart(a, u) ==
    IF TruthyPw(a.oldPassword) /\ TruthyPw(a.newPassword)
    THEN IF a.oldPassword = a.newPassword
         THEN [error |-> "PLEASE CHOOSE ANOTHER PASSWORD !", patch |-> UpdatedUsr(a)]
         ELSE IF bcryptCompare(a.oldPassword, u.password)
         THEN [error |-> NULL,
               patch |-> WithPassword(UpdatedUsr(a), bcryptHash(a.newPassword))]
         ELSE [error |-> "Password doesn't match", patch |-> UpdatedUsr(a)]
    ELSE [error |-> NULL, patch |-> UpdatedUsr(a)]

\* lines 179-205: Users.findOne by id, the password pair, Object.keys
UpdateUser(k, a) ==
    /\ req[k] = Idle
    /\ UNCHANGED <<users, nextId, codes, timers>>
    /\ IF UsersById(users, a.id) = {}
       THEN /\ resp' = Failed("updateUser", a, "USER DOESN'T EXIST !")
            /\ UNCHANGED req
       ELSE \E u \in UsersById(users, a.id) :
                LET part == UpdateUserPasswordPart(a, u)
                IN  IF part.error # NULL
                    THEN /\ resp' = Failed("updateUser", a, part.error)
                         /\ UNCHANGED req
                    ELSE IF DOMAIN part.patch = {}
                    THEN /\ resp' = Failed("updateUser", a, "NO ITEM SELECTED !")
                         /\ UNCHANGED req
                    ELSE /\ Suspend(k, [op |-> "updateUser", pc |-> "update",
                                        args |-> a, patch |-> part.patch])
                         /\ UNCHANGED resp

\* line 206: Users.update({ id }, updated_usr)
UpdateUserUpdate(k) ==
    /\ req[k].op = "updateUser"
    /\ req[k].pc = "update"
    /\ LET a == req[k].args
           updated == UsersUpdateById(users, a.id, req[k].patch)
       IN  IF UsersUnique(updated)
           THEN /\ users' = updated
                /\ resp' = Returned("updateUser", a,
                                     [affected |-> Cardinality(UsersById(users, a.id))])
           ELSE /\ UNCHANGED users
                /\ resp' = Failed("updateUser", a, "QueryFailedError")
    /\ Finish(k)
    /\ UNCHANGED <<nextId, codes, timers>>

(***************************************************************************)
(* RESET_USER                                                              *)
(***************************************************************************)
\* utils.generateId: the values it may return
GenerateId == CodeIds

\* lines 218-223: Users.findOne by email, generateId
ResetUser(k, a, c) ==
    /\ req[k] = Idle
    /\ c \in GenerateId
    /\ UNCHANGED <<users, nextId, codes, timers>>
    /\ IF UsersByEmail(users, a.email) = {}
       THEN /\ resp' = Failed("resetUser", a, "USER DOESN'T EXIST !")
            /\ UNCHANGED req
       ELSE /\ Suspend(k, [op |-> "resetUser", pc |-> "delete",
                           args |-> a, verifCode |-> c])
            /\ UNCHANGED resp

\* line 232: VerificationCode.delete({ email })
ResetUserDelete(k) ==
    /\ req[k].op = "resetUser"
    /\ req[k].pc = "delete"
    /\ codes' = CodesDeleteByEmail(codes, req[k].args.email)
    /\ Suspend(k, [req[k] EXCEPT !.pc = "insert"])
    /\ UNCHANGED <<users, nextId, timers, resp>>

\* variant: without the call of removeExpiredAuth
ScheduleNothing(tm, e, c) == tm

\* line 234: removeExpiredAuth(VerificationCode, email, verifCode, 550)
\* Two pending tasks for the same (email, code) delete the same rows; the
\* set keeps one.
ScheduleExpiry(tm, e, c) == tm \cup {[email |-> e, code |-> c]}

\* lines 233-261: VerificationCode.insert, removeExpiredAuth, sendMail
ResetUserInsert(k) ==
    /\ req[k].op = "resetUser"
    /\ req[k].pc = "insert"
    /\ codes' = CodesInsert(codes, req[k].args.email, req[k].verifCode)
    /\ timers' = ScheduleExpiry(timers, req[k].args.email, req[k].verifCode)
    /\ resp' = Returned("resetUser", req[k].args, Void)
    /\ Finish(k)
    /\ UNCHANGED <<users, nextId>>

\* utils.removeExpiredAuth: the deferred task, run once its delay has passed
RemoveExpiredAuth(t) ==
    /\ t \in timers
    /\ codes' = CodesDeleteByEmailAndCode(codes, t.email, t.code)
    /\ timers' = timers \ {t}
    /\ UNCHANGED <<users, nextId, req, resp>>

(***************************************************************************)
(* CHECK_VERIFICATION_CODE                                                 *)
(***************************************************************************)
\* lines 270-280
CheckVerificationCode(a) ==
    /\ UNCHANGED <<users, nextId, codes, timers, req>>
    /\ IF CodesByEmailAndCode(codes, a.email, a.code) = {}
       THEN resp' = Failed("checkVerificationCode", a, "Unvalid code !")
       ELSE resp' = Returned("checkVerificationCode", a, Text("OK!"))

(***************************************************************************)
(* Requests.                                                               *)
(***************************************************************************)
CreateArg(e, n, p, q, adm) ==
    [fullName |-> "Al A", userName |-> n, email |-> e, password |-> p,
     passwordConfirmation |-> q, birthday |-> "2000-01-01", isAdmin |-> adm]

LoginArg(e, p) == [email |-> e, password |-> p]

IdArg(id) == [id |-> id]

PasswordArg(e, old, new, c) ==
    [email |-> e, oldPassword |-> old, newPassword |-> new, code |-> c]

NoUpdate(id) ==
    [id |-> id, userName |-> NULL, fullName |-> NULL, email |-> NULL,
     oldPassword |-> NoPassword, newPassword |-> NoPassword, birthday |-> NULL]

EmailArg(e) == [email |-> e]

CodeArg(e, c) == [email |-> e, code |-> c]

UserIds == 1..MaxUsers

(***************************************************************************)
(* Signup: concurrent signups against profile updates, deletions and       *)
(* password resets.                                                        *)
(***************************************************************************)
SignupCreateArgs ==
    {CreateArg("a@x", "al", PwStrong1, PwStrong1, NULL),
     CreateArg("b@x", "bo", PwStrong1, PwStrong1, NULL),
     CreateArg("a@x", "bo", PwStrong1, PwStrong1, NULL),
     CreateArg("b@x", "al", PwShort, PwShort, NULL)}

SignupUpdateArgs ==
    UNION {{[NoUpdate(id) EXCEPT !.userName = "bo"],
            [NoUpdate(id) EXCEPT !.email = "b@x"]} : id \in UserIds}

NextSignup ==
    \/ \E k \in Conns, a \in SignupCreateArgs : CreateUser(k, a)
    \/ \E k \in Conns : CreateUserInsert(k)
    \/ \E id \in UserIds : DeleteUser(IdArg(id))
    \/ \E k \in Conns, a \in SignupUpdateArgs : UpdateUser(k, a)
    \/ \E k \in Conns : UpdateUserUpdate(k)
    \/ ResetUser("k1", EmailArg("a@x"), "c1")
    \/ ResetUserDelete("k1")
    \/ ResetUserInsert("k1")
    \/ \E t \in timers : RemoveExpiredAuth(t)
    \/ UpdateUserPassword("k1", PasswordArg("a@x", PwStrong2, PwStrong2, "c1"))
    \/ UpdateUserPasswordCheck("k1")
    \/ UpdateUserPasswordUpdate("k1")
    \/ UpdateUserPasswordDelete("k1")

SpecSignup == Init /\ [][NextSignup]_vars

(***************************************************************************)
(* Profile: login and profile updates of two accounts.                     *)
(***************************************************************************)
ProfileCreateArgs ==
    {CreateArg("a@x", "al", PwStrong1, PwStrong1, NULL),
     CreateArg("b@x", "bo", PwStrong2, PwStrong2, "true")}

ProfileLoginArgs ==
    {LoginArg("a@x", PwStrong1), LoginArg("a@x", PwStrong2),
     LoginArg("bo", PwStrong2), LoginArg("al", PwShort)}

ProfileUpdateArgs ==
    UNION {{NoUpdate(id),
            [NoUpdate(id) EXCEPT !.userName = "a@x"],
            [NoUpdate(id) EXCEPT !.fullName = "Bo B"],
            [NoUpdate(id) EXCEPT !.fullName = ""],
            [NoUpdate(id) EXCEPT !.email = "b@x"],
            [NoUpdate(id) EXCEPT !.birthday = "1999-12-31"],
            [NoUpdate(id) EXCEPT !.oldPassword = PwStrong1, !.newPassword = PwShort],
            [NoUpdate(id) EXCEPT !.oldPassword = PwStrong1, !.newPassword = PwStrong1],
            [NoUpdate(id) EXCEPT !.oldPassword = PwStrong1]} : id \in UserIds}

NextProfile ==
    \/ \E a \in ProfileCreateArgs : CreateUser("k2", a)
    \/ CreateUserInsert("k2")
    \/ \E a \in ProfileLoginArgs : Login(a)
    \/ \E id \in UserIds : DeleteUser(IdArg(id))
    \/ \E a \in ProfileUpdateArgs : UpdateUser("k1", a)
    \/ UpdateUserUpdate("k1")

SpecProfile == Init /\ [][NextProfile]_vars

(***************************************************************************)
(* Codes: password change authorised by an emailed verification code.      *)
(***************************************************************************)
CodesCreateArgs ==
    {CreateArg("a@x", "al", PwStrong1, PwStrong1, NULL),
     CreateArg("b@x", "bo", PwStrong1, PwStrong1, NULL)}

CodesPasswordArgs ==
    {PasswordArg("a@x", PwStrong2, PwStrong2, "c1"),
     PasswordArg("a@x", PwStrong2, PwStrong2, "c2"),
     PasswordArg("a@x", PwStrong1, PwStrong1, "c1"),
     PasswordArg("a@x", PwStrong2, PwStrong1, "c1"),
     PasswordArg("a@x", PwShort, PwShort, "c1")}

CodesCheckArgs == {CodeArg("a@x", "c1"), CodeArg("a@x", "c2"), CodeArg("b@x", "c1")}

NextCodes ==
    \/ \E a \in CodesCreateArgs : CreateUser("k2", a)
    \/ CreateUserInsert("k2")
    \/ DeleteUser(IdArg(1))
    \/ \E c \in GenerateId : ResetUser("k2", EmailArg("a@x"), c)
    \/ ResetUser("k2", EmailArg("b@x"), "c1")
    \/ ResetUserDelete("k2")
    \/ ResetUserInsert("k2")
    \/ \E t \in timers : RemoveExpiredAuth(t)
    \/ \E a \in CodesPasswordArgs : UpdateUserPassword("k1", a)
    \/ UpdateUserPasswordCheck("k1")
    \/ UpdateUserPasswordUpdate("k1")
    \/ UpdateUserPasswordDelete("k1")
    \/ \E a \in CodesCheckArgs : CheckVerificationCode(a)

SpecCodes == Init /\ [][NextCodes]_vars

(***************************************************************************)
(* Reset: concurrent reset requests for one account.                       *)
(***************************************************************************)
NextReset ==
    \/ CreateUser("k1", CreateArg("a@x", "al", PwStrong1, PwStrong1, NULL))
    \/ CreateUserInsert("k1")
    \/ \E k \in Conns, c \in GenerateId : ResetUser(k, EmailArg("a@x"), c)
    \/ \E k \in Conns : ResetUserDelete(k)
    \/ \E k \in Conns : ResetUserInsert(k)
    \/ \E t \in timers : RemoveExpiredAuth(t)
    \/ UpdateUserPassword("k1", PasswordArg("a@x", PwStrong2, PwStrong2, "c1"))
    \/ UpdateUserPasswordCheck("k1")
    \/ UpdateUserPasswordUpdate("k1")
    \/ UpdateUserPasswordDelete("k1")
    \/ \E c \in CodeIds : CheckVerificationCode(CodeArg("a@x", c))

SpecReset == Init /\ [][NextReset]_vars

\* The deferred task of removeExpiredAuth runs once its delay has passed.
SpecResetFair ==
    SpecReset /\ \A e \in Strings, c \in CodeIds :
                    WF_vars(RemoveExpiredAuth([email |-> e, code |-> c]))

(***************************************************************************)
(* Properties.                                                             *)
(***************************************************************************)
Live(e, c) == CodesByEmailAndCode(codes, e, c) # {}
LiveAfter(e, c) == CodesByEmailAndCode(codes', e, c) # {}

Answered(op) == resp' # resp /\ resp'.op = op

Passwords == {PwStrong1, PwStrong2, PwNoDigit, PwShort}

\* C1: no two distinct User records share an email, and no two share a
\* username, in every state reached by interleaved createUser, updateUser,
\* updateUserPassword, resetUser and deleteUser requests.
C1_UniqueEmailAndUserName ==
    \A u, v \in users : u # v => u.email # v.email /\ u.userName # v.userName

\* two accounts exist and a write has just been refused by a unique column
C1_Witness ==
    /\ Cardinality(users) = 2
    /\ resp.op \in {"createUser", "updateUser"}
    /\ resp.error = "QueryFailedError"

\* C4: a createUser whose email or userName is already held by a user is
\* rejected, never carried on towards the insert, and a rejected createUser
\* leaves the Users rows unchanged.
C4_DuplicateSignupRejected ==
    [][/\ \A k \in Conns :
              (req[k] = Idle /\ req'[k] # Idle /\ req'[k].op = "createUser")
                  => ~\E u \in users : \/ u.email = req'[k].args.email
                                       \/ u.userName = req'[k].args.userName
       /\ Answered("createUser") =>
              /\ (\E u \in users : \/ u.email = resp'.args.email
                                   \/ u.userName = resp'.args.userName)
                     => resp'.error # NULL
              /\ resp'.error # NULL => users' = users]_vars

\* a signup was refused because another account holds its userName only
C4_Witness ==
    /\ resp.op = "createUser"
    /\ resp.error = "User already registered !"
    /\ \E u \in users : u.userName = resp.args.userName /\ u.email # resp.args.email

\* C2: at most one VerificationCode row exists per email in every reachable
\* state, also when two resetUser requests for one email interleave.
C2_AtMostOneCodePerEmail ==
    \A e \in Strings : CodesCount(codes, CodesByEmail(codes, e)) <= 1

\* C3: checkVerificationCode succeeds exactly while a row for (email, code)
\* is live; a successful updateUserPassword leaves no row for its (email,
\* code); an updateUserPassword that looks the code up when no row is live is
\* rejected without effect; and a row appears only by the insert of a
\* resetUser.
C3_SingleUse ==
    [][/\ Answered("checkVerificationCode") =>
              (resp'.error = NULL <=> Live(resp'.args.email, resp'.args.code))
       /\ (Answered("updateUserPassword") /\ resp'.error = NULL) =>
              ~LiveAfter(resp'.args.email, resp'.args.code)
       /\ \A k \in Conns :
              (/\ req[k].op = "updateUserPassword"
               /\ req[k].pc = "findCode"
               /\ req'[k] # req[k]
               /\ ~Live(req[k].args.email, req[k].args.code))
                  => /\ req'[k] = Idle
                     /\ resp'.op = "updateUserPassword"
                     /\ resp'.error # NULL
                     /\ users' = users
                     /\ codes' = codes
       /\ \A row \in DOMAIN codes' :
              (row \notin DOMAIN codes \/ codes'[row] > codes[row]) =>
                  \E k \in Conns : /\ req[k].op = "resetUser"
                                   /\ req[k].pc = "insert"
                                   /\ req'[k] = Idle
                                   /\ req[k].args.email = row.email
                                   /\ req[k].verifCode = row.code]_vars

\* the password of a@x was changed with code c1, and a later check of
\* (a@x, c1) failed while the expiry task of that code was still pending
C3_Witness ==
    /\ resp = Failed("checkVerificationCode", CodeArg("a@x", "c1"), "Unvalid code !")
    /\ \E u \in users : u.email = "a@x" /\ bcryptCompare(PwStrong2, u.password)
    /\ [email |-> "a@x", code |-> "c1"] \in timers

\* C5: no stored password hash is the hash of a password that fails
\* strength validation.
C5_NoWeakPasswordStored ==
    \A u \in users : \A p \in Passwords :
        bcryptCompare(p, u.password) => checkValidPassword(p)

ProfileFields == {"userName", "fullName", "email", "birthday"}

Supplied(a) ==
    {f \in ProfileFields : a[f] # NULL}
        \cup (IF a.oldPassword # NoPassword /\ a.newPassword # NoPassword
              THEN {"password"} ELSE {})

FieldSet(v, f, a) ==
    IF f = "password" THEN bcryptCompare(a.newPassword, v.password) ELSE v[f] = a[f]

\* C6: an updateUser that supplies no field and no password pair is
\* rejected and changes nothing; an updateUser changes, of the user it names,
\* only the fields it supplies, sets a supplied field to the supplied value
\* when it is accepted, and leaves every other user unchanged.
C6_UpdateUserFrame ==
    [][/\ Answered("updateUser") =>
              /\ resp'.error # NULL => users' = users
              /\ Supplied(resp'.args) = {} => resp'.error # NULL
       /\ \A k \in Conns :
              (req[k] = Idle /\ req'[k] # Idle /\ req'[k].op = "updateUser") =>
                  /\ Supplied(req'[k].args) # {}
                  /\ users' = users
       /\ \A k \in Conns :
              (req[k].op = "updateUser" /\ req'[k] = Idle) =>
                  LET a == req[k].args
                  IN  /\ {u.id : u \in users'} = {u.id : u \in users}
                      /\ \A u \in users : u.id # a.id => u \in users'
                      /\ \A u \in users : \A v \in users' :
                             (u.id = a.id /\ v.id = a.id) =>
                                 /\ \A f \in DOMAIN u :
                                        f \notin Supplied(a) => v[f] = u[f]
                                 /\ resp'.error = NULL =>
                                        \A f \in Supplied(a) : FieldSet(v, f, a)]_vars

\* of two accounts, the full name of one was changed and nothing else
C6_Witness ==
    /\ resp.op = "updateUser"
    /\ resp.error = NULL
    /\ Supplied(resp.args) = {"fullName"}
    /\ Cardinality(users) = 2
    /\ \E u \in users : /\ u.id = resp.args.id
                        /\ u.fullName = "Bo B"
                        /\ u.birthday = "2000-01-01"
    /\ \E u \in users : u.id # resp.args.id /\ u.fullName = "Al A"

Claims(u) ==
    [id |-> u.id, fullName |-> u.fullName, email |-> u.email,
     username |-> u.userName, isAdmin |-> u.isAdmin]

Holder(u, a) ==
    /\ u.email = a.email \/ u.userName = a.email
    /\ bcryptCompare(a.password, u.password)

\* C7: login succeeds exactly when some user has the identifier as email or
\* userName and a stored hash that matches the password; the token of a
\* successful login decodes to the claims of such a user's stored record; and
\* login changes neither table.
C7_LoginExactly ==
    [][Answered("login") =>
           /\ resp'.error = NULL <=> \E u \in users : Holder(u, resp'.args)
           /\ resp'.error = NULL =>
                  \E u \in users : /\ Holder(u, resp'.args)
                                   /\ jwtDecode(resp'.value) = Claims(u)
           /\ users' = users
           /\ codes' = codes]_vars

C8_Conditions(r) ==
    /\ r.user.email = r.args.email
    /\ Live(r.args.email, r.args.code)
    /\ r.args.oldPassword = r.args.newPassword
    /\ ~bcryptCompare(r.args.oldPassword, r.user.password)
    /\ checkValidPassword(r.args.newPassword)

\* C8: updateUserPassword goes on to write only when the user exists, a live
\* row matches (email, code), oldPassword equals newPassword, oldPassword
\* does not match the stored hash and newPassword passes validation;
\* otherwise it is rejected.  It then stores the hash of newPassword and
\* leaves no row for (email, code); a rejected request changes neither table,
\* and no other step of the request writes.
C8_PasswordChangeGuard ==
    [][/\ Answered("updateUserPassword") =>
              /\ resp'.error # NULL => users' = users /\ codes' = codes
              /\ resp'.error = NULL =>
                     /\ users' = users
                     /\ ~LiveAfter(resp'.args.email, resp'.args.code)
       /\ \A k \in Conns :
              (req[k] = Idle /\ req'[k] # Idle /\ req'[k].op = "updateUserPassword") =>
                  /\ req'[k].user \in users
                  /\ req'[k].user.email = req'[k].args.email
                  /\ users' = users
                  /\ codes' = codes
       /\ \A k \in Conns :
              (/\ req[k].op = "updateUserPassword"
               /\ req[k].pc = "findCode"
               /\ req'[k] # req[k]) =>
                  /\ users' = users
                  /\ codes' = codes
                  /\ IF C8_Conditions(req[k])
                     THEN req'[k].pc = "update" /\ resp' = resp
                     ELSE /\ req'[k] = Idle
                          /\ resp'.op = "updateUserPassword"
                          /\ resp'.error # NULL
       /\ \A k \in Conns :
              (/\ req[k].op = "updateUserPassword"
               /\ req[k].pc = "update"
               /\ req'[k] # req[k]) =>
                  /\ codes' = codes
                  /\ \A v \in users' :
                         v.email = req[k].args.email =>
                             bcryptCompare(req[k].args.newPassword, v.password)
                  /\ \A u \in users : u.email # req[k].args.email => u \in users']_vars

\* a password change went through: the reply is a success and the account
\* holds the new password
C8_Witness ==
    /\ resp.op = "updateUserPassword"
    /\ resp.error = NULL
    /\ \E u \in users : /\ u.email = resp.args.email
                        /\ bcryptCompare(resp.args.newPassword, u.password)

\* C9: every live VerificationCode row is eventually deleted, so that
\* checkVerificationCode for its (email, code) eventually fails.
C9_CodeEventuallyDeleted ==
    \A e \in Strings, c \in CodeIds : Live(e, c) ~> ~Live(e, c)

\* a reset has been answered and its code is live, its expiry task pending
C9_Witness ==
    /\ resp.op = "resetUser"
    /\ resp.error = NULL
    /\ \E c \in CodeIds : /\ Live("a@x", c)
                          /\ [email |-> "a@x", code |-> c] \in timers

\* C10: the step of updateUserPassword that deletes the verification code
\* leaves the rows of every other email unchanged.
C10_OnlyOwnCodeRemoved ==
    [][\A k \in Conns :
           (/\ req[k].op = "updateUserPassword"
            /\ req[k].pc = "deleteCode"
            /\ req'[k] = Idle) =>
               \A row \in DOMAIN codes :
                   row.email # req[k].args.email =>
                       row \in DOMAIN codes' /\ codes'[row] = codes[row]]_vars

====
